---- MODULE Spec2Model ----
(***************************************************************************)
(* The salary dashboard of src/app.py as a state machine.                  *)
(*                                                                         *)
(* The program is one Streamlit script.  Streamlit runs the script from    *)
(* top to bottom when the page is opened and again, in full, after every   *)
(* widget interaction; the widgets return the session's current            *)
(* selections.  One action of the model is therefore one user interaction  *)
(* followed by the whole script run it triggers.  RunScript is the script; *)
(* an exception raised anywhere in it ends the run at that line.           *)
(*                                                                         *)
(* Numbers.  Salaries are held in half-roubles, annual inflation in        *)
(* hundredths of a percent and the cumulative factor in thousandths, so    *)
(* that the rounding of the detailed table changes values.  A quotient of  *)
(* two salaries is held as the reduced fraction <<num, den>>.              *)
(***************************************************************************)
EXTENDS Integers, Sequences, FiniteSets, TLC

\* ------------------------------------------------------------------ bounds
\* The years the file covers, from FirstYear on, and the most rows it holds.
NumYears == 2
MaxRows == 4

\* First year of the analysed period (default start_year of calculate_metrics).
FirstYear == 2000

Years == FirstYear .. (FirstYear + NumYears - 1)
Industries == <<"IT", "Edu">>

\* The <<nominal, real>> salaries a row may hold, in half-roubles: real is in
\* prices of the base year, so never above nominal.
SalaryPairs == {<<3, 2>>, <<6, 3>>}

\* The columns of data/salary_analysis_data.csv the script reads:
\* Отрасль, Год, Зарплата, Реальная_зарплата, Инфляция, Кумулятивная_инфляция.
Columns == {"Sector", "Year", "Salary", "RealSalary", "Inflation", "CumInflation"}

None == [kind |-> "none"]

\* --------------------------------------------------------------- arithmetic
RECURSIVE GCD(_, _)
GCD(a, b) == IF b = 0 THEN a ELSE GCD(b, a % b)

\* a / b of two positive numbers, as the reduced fraction.
Ratio(a, b) == LET g == GCD(a, b) IN <<a \div g, b \div g>>

\* p > q for fractions with positive denominators.
RatioGT(p, q) == p[1] * q[2] > q[1] * p[2]

\* numpy's round: to the nearest multiple of unit, ties to the even multiple.
RoundHalfEven(v, unit) ==
    LET q == v \div unit
        r == v % unit
    IN  IF 2 * r < unit THEN q * unit
        ELSE IF 2 * r > unit THEN (q + 1) * unit
        ELSE IF q % 2 = 0 THEN q * unit ELSE (q + 1) * unit

\* ------------------------------------------------------------ input files
\* Annual inflation and cumulative factor are per-year series of the file.
InflationOf(y) == 2024 - 417 * (y - FirstYear)
CumInflationOf(y) == 1000 + 202 * (y - FirstYear)

Row(s, y, n, r) ==
    [Sector |-> s, Year |-> y, Salary |-> n, RealSalary |-> r,
     Inflation |-> InflationOf(y), CumInflation |-> CumInflationOf(y)]

\* The (industry, year) cells in file order: one row per cell at most.
Cells == [i \in 1 .. (Len(Industries) * NumYears) |->
            <<Industries[((i - 1) \div NumYears) + 1],
              FirstYear + ((i - 1) % NumYears)>>]

Absent == <<0, 0>>

RECURSIVE RowsOf(_, _)
RowsOf(f, i) ==
    IF i > Len(Cells) THEN <<>>
    ELSE IF f[i] = Absent THEN RowsOf(f, i + 1)
    ELSE <<Row(Cells[i][1], Cells[i][2], f[i][1], f[i][2])>> \o RowsOf(f, i + 1)

\* The tables of at most MaxRows rows, one row per cell at most, salaries in S.
DatasetsOver(S) ==
    {RowsOf(f, 1) : f \in {g \in [1 .. Len(Cells) -> S \cup {Absent}] :
                              Cardinality({i \in 1 .. Len(Cells) : g[i] # Absent}) <= MaxRows}}

Datasets == DatasetsOver(SalaryPairs)

\* A file on disk: missing; or a table with all six columns; or a table that
\* lacks one column (there the rows vary in which cells they cover only).
Files ==
    {[exists |-> FALSE, columns |-> {}, rows |-> <<>>]}
    \cup {[exists |-> TRUE, columns |-> Columns, rows |-> d] : d \in Datasets}
    \cup {[exists |-> TRUE, columns |-> Columns \ {c}, rows |-> d] :
            c \in Columns, d \in DatasetsOver({<<3, 2>>})}

\* ---------------------------------------------------------------- state
VARIABLES
    file,              \* data/salary_analysis_data.csv as it is on disk
    started,           \* whether the page has been opened
    data,              \* what load_data returned (memoised), None if nothing
    selected_sectors,  \* the multiselect's value, in selection order
    year_range,        \* the slider's value <<start, end>>
    chart_type,        \* the selectbox's value
    show_table,        \* the checkbox's value
    filtered_data,     \* the rows the last run filtered, None if it did not
    display_data,      \* the rounded copy shown as the detailed table
    calls,             \* the calculate_metrics calls of the last run
    page,              \* what the last run rendered, in order
    widgets,           \* the widgets the last run rendered
    crash              \* the exception that ended the last run, None if none

vars == <<file, started, data, selected_sectors, year_range, chart_type,
          show_table, filtered_data, display_data, calls, page, widgets, crash>>

\* ------------------------------------------------------------ data frames
Frame(cols, rows) == [kind |-> "frame", columns |-> cols, rows |-> rows]
Raise(exc, line) == [kind |-> "raise", exc |-> exc, line |-> line]

RECURSIVE Unique(_, _)
\* Series.unique(): the distinct values in order of first appearance.
Unique(vals, seen) ==
    IF vals = <<>> THEN <<>>
    ELSE IF Head(vals) \in seen THEN Unique(Tail(vals), seen)
    ELSE <<Head(vals)>> \o Unique(Tail(vals), seen \cup {Head(vals)})

Column(rows, c) == [i \in 1 .. Len(rows) |-> rows[i][c]]
Range(seq) == {seq[i] : i \in 1 .. Len(seq)}
Min(S) == CHOOSE x \in S : \A y \in S : x <= y
Max(S) == CHOOSE x \in S : \A y \in S : x >= y

\* ------------------------------------------------------------- load_data
\* load_data without its st.error call.
load_data_Silent(f) ==
    IF f.exists
    THEN [value |-> Frame(f.columns, f.rows), error |-> FALSE]
    ELSE [value |-> None, error |-> FALSE]

\* pd.read_csv succeeds on any table; only a missing file is caught.
load_data(f) ==
    IF f.exists
    THEN [value |-> Frame(f.columns, f.rows), error |-> FALSE]
    ELSE [value |-> None, error |-> TRUE]

\* ------------------------------------------------------ calculate_metrics
\* (g ** (1 / years) - 1) * 100, held unevaluated.
AnnualRate(g, years) == [growth |-> g, years |-> years]

\* The result of one call: what it returned (None or the dict) or raised, and
\* the columns it had read by then.
NotComputable(read) == [kind |-> "none", read |-> read]
Raises(exc, line, read) == [kind |-> "raise", exc |-> exc, line |-> line, read |-> read]

\* calculate_metrics with real_growth taken from the nominal salaries.
GrowthMetrics_RealFromNominal(start_salary, end_salary, start_real_salary, end_real_salary, years_diff) ==
    IF years_diff = 0
    THEN Raises("ZeroDivisionError", 67, {"Sector", "Year", "Salary", "RealSalary"})
    ELSE [kind |-> "metrics",
          read |-> {"Sector", "Year", "Salary", "RealSalary"},
          start_salary |-> start_salary,
          end_salary |-> end_salary,
          start_real_salary |-> start_real_salary,
          end_real_salary |-> end_real_salary,
          nominal_growth |-> Ratio(end_salary, start_salary),
          real_growth |-> Ratio(end_salary, start_salary),
          avg_nominal_growth |-> AnnualRate(Ratio(end_salary, start_salary), years_diff),
          avg_real_growth |-> AnnualRate(Ratio(end_salary, start_salary), years_diff)]

\* Lines 64-79: the growth ratios, the yearly rates and the returned dict.
GrowthMetrics(start_salary, end_salary, start_real_salary, end_real_salary, years_diff) ==
    IF years_diff = 0
    THEN Raises("ZeroDivisionError", 67, {"Sector", "Year", "Salary", "RealSalary"})
    ELSE [kind |-> "metrics",
          read |-> {"Sector", "Year", "Salary", "RealSalary"},
          start_salary |-> start_salary,
          end_salary |-> end_salary,
          start_real_salary |-> start_real_salary,
          end_real_salary |-> end_real_salary,
          nominal_growth |-> Ratio(end_salary, start_salary),
          real_growth |-> Ratio(end_real_salary, start_real_salary),
          avg_nominal_growth |-> AnnualRate(Ratio(end_salary, start_salary), years_diff),
          avg_real_growth |-> AnnualRate(Ratio(end_real_salary, start_real_salary), years_diff)]

\* calculate_metrics with the salary columns read before the guard on the
\* endpoint rows.
EndpointMetrics_ReadsFirst(columns, start_data, end_data, years_diff) ==
    IF "Salary" \notin columns
    THEN Raises("KeyError", 59, {"Sector", "Year"})
    ELSE IF "RealSalary" \notin columns
    THEN Raises("KeyError", 61, {"Sector", "Year", "Salary"})
    ELSE IF Len(start_data) = 0 \/ Len(end_data) = 0
    THEN NotComputable({"Sector", "Year", "Salary", "RealSalary"})
    ELSE GrowthMetrics(start_data[1].Salary, end_data[1].Salary,
                       start_data[1].RealSalary, end_data[1].RealSalary,
                       years_diff)

\* Lines 56-62: the guard on the endpoint rows and the four salary reads.
EndpointMetrics(columns, start_data, end_data, years_diff) ==
    IF Len(start_data) = 0 \/ Len(end_data) = 0
    THEN NotComputable({"Sector", "Year"})
    ELSE IF "Salary" \notin columns
    THEN Raises("KeyError", 59, {"Sector", "Year"})
    ELSE IF "RealSalary" \notin columns
    THEN Raises("KeyError", 61, {"Sector", "Year", "Salary"})
    ELSE GrowthMetrics(start_data[1].Salary, end_data[1].Salary,
                       start_data[1].RealSalary, end_data[1].RealSalary,
                       years_diff)

\* Lines 51-54: a sector's rows at one year.
SectorYearRows(rows, sector, year) ==
    SelectSeq(SelectSeq(rows, LAMBDA r : r.Sector = sector), LAMBDA r : r.Year = year)

calculate_metrics(d, sector, start_year, end_year) ==
    IF "Sector" \notin d.columns THEN Raises("KeyError", 51, {})
    ELSE IF "Year" \notin d.columns THEN Raises("KeyError", 53, {"Sector"})
    ELSE EndpointMetrics(d.columns,
                         SectorYearRows(d.rows, sector, start_year),
                         SectorYearRows(d.rows, sector, end_year),
                         end_year - start_year)

Call(site, sector, yr, result) ==
    [site |-> site, sector |-> sector, start_year |-> yr[1], end_year |-> yr[2],
     result |-> result]

RECURSIVE MetricsLoop(_, _, _, _)
RECURSIVE LoopFrom(_, _, _, _, _)
\* "for sector in selected_sectors: metrics = calculate_metrics(...)": the calls
\* made, up to and including the first that raises.
MetricsLoop(d, site, sectors, yr) ==
    IF sectors = <<>> THEN <<>>
    ELSE LoopFrom(Call(site, Head(sectors), yr,
                       calculate_metrics(d, Head(sectors), yr[1], yr[2])),
                  d, site, Tail(sectors), yr)

LoopFrom(c, d, site, rest, yr) ==
    IF c.result.kind = "raise" THEN <<c>>
    ELSE <<c>> \o MetricsLoop(d, site, rest, yr)

Raised(cs) == cs # <<>> /\ cs[Len(cs)].result.kind = "raise"
Computable(c) == c.result.kind = "metrics"

\* ------------------------------------------------------------- the script
ChartTypes == <<"Nominal", "Real", "Growth", "Inflation">>

\* A widget the user has not touched, or that the previous run did not render,
\* returns its default.
WidgetValue(w, key, default) == IF key \in w.has THEN w[key] ELSE default

\* The state of a run: the frame the script holds, what it has rendered and
\* called so far, and the exception that ended it.
Crashed(r) == r.crash.kind = "raise"
Render(r, elems) == [r EXCEPT !.page = @ \o elems]
Fail(r, exc, line) == [r EXCEPT !.crash = Raise(exc, line)]

\* Lines 9-35 and 82: the page title and the load, with load_data's message.
StartRun(loaded) ==
    [d |-> loaded.value,
     page |-> <<[kind |-> "title"]>>
              \o (IF loaded.error THEN <<[kind |-> "error"]>> ELSE <<>>),
     calls |-> <<>>, crash |-> None, widgets |-> {},
     selected_sectors |-> <<>>, year_range |-> <<0, 0>>,
     chart_type |-> "Nominal", show_table |-> FALSE,
     filtered_data |-> None, display_data |-> None]

\* The filter with the end year excluded.
FilterData_ExclusiveEnd(d, sectors, yr) ==
    Frame(d.columns,
          SelectSeq(d.rows, LAMBDA row : /\ row.Sector \in Range(sectors)
                                        /\ row.Year >= yr[1]
                                        /\ row.Year < yr[2]))

\* data[isin(selected_sectors) & (Год >= lo) & (Год <= hi)]
FilterData(d, sectors, yr) ==
    Frame(d.columns,
          SelectSeq(d.rows, LAMBDA row : /\ row.Sector \in Range(sectors)
                                        /\ row.Year >= yr[1]
                                        /\ row.Year <= yr[2]))

\* Lines 89-94: the sector multiselect.
Multiselect(r, w, available_sectors) ==
    [r EXCEPT !.page = @ \o <<[kind |-> "multiselect", options |-> available_sectors]>>,
              !.widgets = @ \cup {"selected_sectors"},
              !.selected_sectors = WidgetValue(w, "selected_sectors", available_sectors)]

\* Lines 100-113: the year slider and the filtering.
Slider(r, w, min_year, max_year) ==
    [r EXCEPT !.page = @ \o <<[kind |-> "slider", min_value |-> min_year,
                               max_value |-> max_year]>>,
              !.widgets = @ \cup {"year_range"},
              !.year_range = WidgetValue(w, "year_range", <<min_year, max_year>>),
              !.filtered_data =
                  FilterData(r.d, r.selected_sectors,
                             WidgetValue(w, "year_range", <<min_year, max_year>>))]

\* Lines 97-98: min and max of the year column; int(nan) of an empty column
\* is a ValueError.
YearBounds(r, w) ==
    IF "Year" \notin r.d.columns THEN Fail(r, "KeyError", 97)
    ELSE IF r.d.rows = <<>> THEN Fail(r, "ValueError", 97)
    ELSE Slider(r, w, Min(Range(Column(r.d.rows, "Year"))),
                Max(Range(Column(r.d.rows, "Year"))))

\* Lines 86-113: the sidebar's filters.
Sidebar(r, w) ==
    IF "Sector" \notin r.d.columns THEN Fail(r, "KeyError", 89)
    ELSE YearBounds(Multiselect(r, w, Unique(Column(r.d.rows, "Sector"), {})), w)

\* What a loop renders: one element per sector with metrics; and how it ends.
LoopOutcome(r, site, cs, shown) ==
    [r EXCEPT !.page = @ \o [i \in 1 .. Len(shown) |->
                               [kind |-> site, sector |-> shown[i].sector,
                                metrics |-> shown[i].result]],
              !.calls = @ \o cs,
              !.crash = IF Raised(cs)
                        THEN Raise(cs[Len(cs)].result.exc, cs[Len(cs)].result.line)
                        ELSE @]

LoopCalls(r, site, cs) == LoopOutcome(r, site, cs, SelectSeq(cs, Computable))

RunLoop(r, site) ==
    LoopCalls(r, site, MetricsLoop(r.d, site, r.selected_sectors, r.year_range))

\* Lines 117-135: the key indicators, one column per selected sector.
KeyMetrics(r) ==
    IF Crashed(r) THEN r
    ELSE RunLoop(Render(r, <<[kind |-> "header", text |-> "key"]>>), "key")

RECURSIVE DropDuplicateYears(_, _)
\* drop_duplicates(subset=['Год']): the first row of each year.
DropDuplicateYears(rows, seen) ==
    IF rows = <<>> THEN <<>>
    ELSE IF Head(rows).Year \in seen THEN DropDuplicateYears(Tail(rows), seen)
    ELSE <<Head(rows)>> \o DropDuplicateYears(Tail(rows), seen \cup {Head(rows).Year})

RECURSIVE SortYears(_, _)
\* sort_values('Год') of rows with distinct years, given the years left.
SortYears(rows, years) ==
    IF years = {} THEN <<>>
    ELSE SelectSeq(rows, LAMBDA row : row.Year = Min(years))
           \o SortYears(rows, years \ {Min(years)})

SortByYear(rows) == SortYears(rows, Range(Column(rows, "Year")))

\* Lines 147-163 and 166-182: a line chart of one column of filtered_data.
LineChart(r, col, line) ==
    IF col \notin r.d.columns THEN Fail(r, "ValueError", line)
    ELSE Render(r, <<[kind |-> "chart", chart_type |-> r.chart_type,
                      points |-> [i \in 1 .. Len(r.filtered_data.rows) |->
                                    <<r.filtered_data.rows[i].Sector,
                                      r.filtered_data.rows[i].Year,
                                      r.filtered_data.rows[i][col]>>]]>>)

\* Lines 196-229: the bars, when growth_data is not empty.
GrowthBars(r, growth_data) ==
    IF Crashed(r) \/ growth_data = <<>> THEN r
    ELSE Render(r, <<[kind |-> "chart", chart_type |-> r.chart_type,
                      points |-> [i \in 1 .. Len(growth_data) |->
                                    <<growth_data[i].sector,
                                      growth_data[i].metrics.nominal_growth,
                                      growth_data[i].metrics.real_growth>>]]>>)

GrowthData(r) == GrowthBars(r, SelectSeq(r.page, LAMBDA e : e.kind = "growth"))

\* Lines 186-229: the growth comparison.
GrowthChart(r) == GrowthData(RunLoop(r, "growth"))

InflationBars(r, inflation_data) ==
    Render(r, <<[kind |-> "chart", chart_type |-> r.chart_type,
                 points |-> [i \in 1 .. Len(inflation_data) |->
                               <<inflation_data[i].Year,
                                 inflation_data[i].Inflation,
                                 IF inflation_data[i].Inflation > 1000
                                 THEN "darkred" ELSE "red",
                                 inflation_data[i].CumInflation>>]]>>)

\* Lines 233-283: the inflation charts.
InflationChart(r) ==
    IF "Inflation" \notin r.d.columns \/ "CumInflation" \notin r.d.columns
    THEN Fail(r, "KeyError", 233)
    ELSE InflationBars(r, SortByYear(DropDuplicateYears(r.filtered_data.rows, {})))

ChosenChart(r) ==
    CASE r.chart_type = "Nominal" -> LineChart(r, "Salary", 147)
      [] r.chart_type = "Real" -> LineChart(r, "RealSalary", 166)
      [] r.chart_type = "Growth" -> GrowthChart(r)
      [] r.chart_type = "Inflation" -> InflationChart(r)

\* Lines 138-283: the chart selector and the chosen chart.
Chart(r, w) ==
    IF Crashed(r) THEN r
    ELSE ChosenChart([r EXCEPT !.page = @ \o <<[kind |-> "header", text |-> "charts"],
                                               [kind |-> "selectbox"]>>,
                               !.widgets = @ \cup {"chart_type"},
                               !.chart_type = WidgetValue(w, "chart_type", ChartTypes[1])])

\* Lines 291-294 on one row of the copy.
RoundRow(row) ==
    [row EXCEPT !.Salary = RoundHalfEven(@, 2),
                !.RealSalary = RoundHalfEven(@, 2),
                !.Inflation = RoundHalfEven(@, 10),
                !.CumInflation = RoundHalfEven(@, 10)]

RoundRows(rows) == [i \in 1 .. Len(rows) |-> RoundRow(rows[i])]

\* The rounding done on the loaded frame instead of a copy.
DataAfterTable_InPlace(d) == Frame(d.columns, RoundRows(d.rows))

\* The frame the script holds once the detailed table is built: the rounding
\* is done on display_data, a copy (line 290), so it is the frame as it was.
DataAfterTable(d) == d

\* Lines 290-300: the rounded copy and its display.
DetailedTable(r) ==
    IF ~r.show_table THEN r
    ELSE IF "Salary" \notin r.d.columns THEN Fail(r, "KeyError", 291)
    ELSE IF "RealSalary" \notin r.d.columns THEN Fail(r, "KeyError", 292)
    ELSE IF "Inflation" \notin r.d.columns THEN Fail(r, "KeyError", 293)
    ELSE IF "CumInflation" \notin r.d.columns THEN Fail(r, "KeyError", 294)
    ELSE [r EXCEPT !.page = @ \o <<[kind |-> "dataframe"]>>,
                   !.display_data = Frame(r.d.columns, RoundRows(r.filtered_data.rows)),
                   !.d = DataAfterTable(r.d)]

\* Lines 286-300: the detailed table behind its checkbox.
Table(r, w) ==
    IF Crashed(r) THEN r
    ELSE DetailedTable([r EXCEPT !.page = @ \o <<[kind |-> "header", text |-> "table"],
                                                 [kind |-> "checkbox"]>>,
                                 !.widgets = @ \cup {"show_table"},
                                 !.show_table = WidgetValue(w, "show_table", FALSE)])

RECURSIVE Leader(_, _)
\* Lines 335-341: best_sector and best_real_growth after the calls cs.
Leader(cs, best) ==
    IF cs = <<>> THEN best
    ELSE IF Computable(Head(cs))
            /\ RatioGT(Head(cs).result.real_growth, best.best_real_growth)
    THEN Leader(Tail(cs), [best_sector |-> Head(cs).sector,
                           best_real_growth |-> Head(cs).result.real_growth])
    ELSE Leader(Tail(cs), best)

\* Lines 343-344: the leader's line, when there is one.
LeaderLine(r, best) ==
    IF Crashed(r) \/ best.best_sector = "" THEN r
    ELSE Render(r, <<[kind |-> "leader", sector |-> best.best_sector,
                      real_growth |-> best.best_real_growth]>>)

LeaderCalls(r, cs) ==
    LeaderLine([r EXCEPT !.calls = @ \o cs,
                         !.crash = IF Raised(cs)
                                   THEN Raise(cs[Len(cs)].result.exc,
                                              cs[Len(cs)].result.line)
                                   ELSE @],
               Leader(cs, [best_sector |-> "", best_real_growth |-> <<0, 1>>]))

\* Lines 333-344: the real-growth leader, for more than one selected sector.
RealGrowthLeader(r) ==
    IF Len(r.selected_sectors) <= 1 THEN r
    ELSE LeaderCalls(r, MetricsLoop(r.d, "leader", r.selected_sectors, r.year_range))

RECURSIVE Sum(_)
Sum(seq) == IF seq = <<>> THEN 0 ELSE Head(seq) + Sum(Tail(seq))

\* Lines 325-331: the inflation figures of the selected period.
InflationSummary(r, per_year, inflation) ==
    Render(r, <<[kind |-> "summary",
                 avg_inflation |-> <<Sum(inflation), Len(inflation)>>,
                 max_inflation_value |-> Max(Range(inflation)),
                 max_inflation_year |->
                     per_year[Min({i \in 1 .. Len(per_year) :
                                     inflation[i] = Max(Range(inflation))})].Year,
                 period |-> r.year_range,
                 years |-> r.year_range[2] - r.year_range[1]]>>)

PerYear(r, per_year) == InflationSummary(r, per_year, Column(per_year, "Inflation"))

\* Lines 322-344: the general conclusions.
Summary(r) ==
    IF Crashed(r) THEN r
    ELSE IF Len(r.filtered_data.rows) = 0 THEN r
    ELSE IF "Inflation" \notin r.d.columns THEN Fail(r, "KeyError", 325)
    ELSE RealGrowthLeader(PerYear(r, DropDuplicateYears(r.filtered_data.rows, {})))

\* Lines 307-312: the nominal growth list.
NominalList(r) ==
    IF Crashed(r) THEN r ELSE RunLoop(r, "nominal_list")

\* Lines 314-319: the real growth list.
RealList(r) ==
    IF Crashed(r) THEN r ELSE RunLoop(r, "real_list")

\* Lines 303-344: the analytical conclusions.
Conclusions(r) ==
    IF Crashed(r) THEN r
    ELSE Summary(RealList(NominalList(
             Render(r, <<[kind |-> "header", text |-> "conclusions"]>>))))

\* The page body without the guard on len(filtered_data).
Body_NoGuard(r, w) ==
    IF Crashed(r) THEN r
    ELSE Conclusions(Table(Chart(KeyMetrics(r), w), w))

\* Lines 115-347: the page body, or the warning when nothing matches the filters.
Body(r, w) ==
    IF Crashed(r) THEN r
    ELSE IF Len(r.filtered_data.rows) > 0
    THEN Conclusions(Table(Chart(KeyMetrics(r), w), w))
    ELSE Render(r, <<[kind |-> "warning"]>>)

\* Lines 350-363: the project information, at the end of every run.
ProjectInfo(r) ==
    IF Crashed(r) THEN r ELSE Render(r, <<[kind |-> "project_info"]>>)

\* Lines 84-347: everything under "if data is not None".
WithData(r, w) == IF r.d = None THEN r ELSE Body(Sidebar(r, w), w)

\* One run of the script over the memoised load result, with the session's
\* widget values w.
RunScript(loaded, w) == ProjectInfo(WithData(StartRun(loaded), w))

\* ---------------------------------------------------------------- actions
Init ==
    /\ file \in Files
    /\ started = FALSE
    /\ data = None
    /\ selected_sectors = <<>>
    /\ year_range = <<0, 0>>
    /\ chart_type = ChartTypes[1]
    /\ show_table = FALSE
    /\ filtered_data = None
    /\ display_data = None
    /\ calls = <<>>
    /\ page = <<>>
    /\ widgets = {}
    /\ crash = None

\* The session's widget values, for the widgets the last run rendered.
Session ==
    [has |-> widgets, selected_sectors |-> selected_sectors,
     year_range |-> year_range, chart_type |-> chart_type,
     show_table |-> show_table]

Set(w, key, value) == [w EXCEPT !.has = @ \cup {key}, ![key] = value]

\* @st.cache_data: load_data runs once, later runs get what it returned
\* (and its error message again).
CachedLoad ==
    IF started THEN [value |-> data, error |-> data = None] ELSE load_data(file)

\* A script run and the state it leaves.
Run(w) ==
    \E r \in {RunScript(CachedLoad, w)} :
        /\ started' = TRUE
        /\ data' = r.d
        /\ selected_sectors' = r.selected_sectors
        /\ year_range' = r.year_range
        /\ chart_type' = r.chart_type
        /\ show_table' = r.show_table
        /\ filtered_data' = r.filtered_data
        /\ display_data' = r.display_data
        /\ calls' = r.calls
        /\ page' = r.page
        /\ widgets' = r.widgets
        /\ crash' = r.crash
        /\ UNCHANGED file

\* The user opens the page: the first run, every widget at its default.
OpenPage ==
    /\ ~started
    /\ Run(Session)

\* The user adds a sector to the multiselect.
AddSector(s) ==
    /\ started
    /\ "selected_sectors" \in widgets
    /\ s \in Range(Column(data.rows, "Sector")) \ Range(selected_sectors)
    /\ Run(Set(Session, "selected_sectors", Append(selected_sectors, s)))

\* The user removes a sector from the multiselect.
RemoveSector(s) ==
    /\ started
    /\ "selected_sectors" \in widgets
    /\ s \in Range(selected_sectors)
    /\ Run(Set(Session, "selected_sectors",
               SelectSeq(selected_sectors, LAMBDA x : x # s)))

\* The user moves the ends of the year slider.
SetYearRange(lo, hi) ==
    /\ started
    /\ "year_range" \in widgets
    /\ lo <= hi
    /\ <<lo, hi>> # year_range
    /\ lo >= Min(Range(Column(data.rows, "Year")))
    /\ hi <= Max(Range(Column(data.rows, "Year")))
    /\ Run(Set(Session, "year_range", <<lo, hi>>))

\* The user picks another chart.
SelectChart(c) ==
    /\ started
    /\ "chart_type" \in widgets
    /\ c # chart_type
    /\ Run(Set(Session, "chart_type", c))

\* The user ticks or unticks "show the detailed table".
ToggleTable ==
    /\ started
    /\ "show_table" \in widgets
    /\ Run(Set(Session, "show_table", ~show_table))

Next ==
    \/ OpenPage
    \/ \E s \in Range(Industries) : AddSector(s)
    \/ \E s \in Range(Industries) : RemoveSector(s)
    \/ \E lo \in Years, hi \in Years : SetYearRange(lo, hi)
    \/ \E c \in Range(ChartTypes) : SelectChart(c)
    \/ ToggleTable

Spec == Init /\ [][Next]_vars

\* ----------------------------------------------------------------- claims
Shown(kind) == \E i \in 1 .. Len(page) : page[i].kind = kind
ShownFor(kind, sector) ==
    \E i \in 1 .. Len(page) : page[i].kind = kind /\ page[i].sector = sector

AllColumns == file.exists /\ file.columns = Columns
LacksColumn == file.exists /\ file.columns # Columns

\* A row of the file for this sector and year.
RecordAt(sector, year) ==
    \E i \in 1 .. Len(file.rows) :
        file.rows[i].Sector = sector /\ file.rows[i].Year = year

HasEndpoints(c) == RecordAt(c.sector, c.start_year) /\ RecordAt(c.sector, c.end_year)

CallsMade == {calls[i] : i \in 1 .. Len(calls)}

SalaryColumns == {"Salary", "RealSalary"}

\* The rows of the file the filters ask for.
Matching == {i \in 1 .. Len(file.rows) :
                /\ file.rows[i].Sector \in Range(selected_sectors)
                /\ file.rows[i].Year >= year_range[1]
                /\ file.rows[i].Year <= year_range[2]}

Filtered == filtered_data.kind = "frame"

MetricSites == {"key", "growth", "nominal_list", "real_list"}

\* C1: with start_year = end_year, calculate_metrics ends with "not
\* computable" for an industry that has a record at that year, and no run on a
\* zero-length range of the slider ends in an error: nothing derived from the
\* division by zero reaches the page.
C1_ZeroLengthRangeNotComputable ==
    (AllColumns /\ "year_range" \in widgets /\ year_range[1] = year_range[2]) =>
        /\ \A c \in CallsMade : c.result.kind = "none"
        /\ crash = None

\* C2: a call for an industry without a record at start_year or at end_year
\* returns None, raises nothing and has read no salary column; a call returns
\* the metrics dict only if the industry has a record at both years.
C2_MissingEndpointReturnsNone ==
    \A c \in CallsMade :
        /\ ~HasEndpoints(c) =>
              /\ c.result.kind = "none"
              /\ c.result.read \cap SalaryColumns = {}
        /\ c.result.kind = "metrics" => HasEndpoints(c)

C2_Witness ==
    /\ file.exists
    /\ "Salary" \notin file.columns
    /\ \E c \in CallsMade : ~HasEndpoints(c) /\ c.result.kind = "none"

\* The example of the specification, in half-roubles.
ExampleMetrics ==
    calculate_metrics(
        Frame(Columns, <<Row("IT", 2000, 20000, 20000), Row("IT", 2020, 160000, 80000)>>),
        "IT", 2000, 2020)

\* C3: with records at both years and start_year < end_year the call returns
\* the start and end nominal and real salaries of exactly those two records,
\* unrounded, with nominal_growth = end nominal / start nominal and
\* real_growth = end real / start real; the example gives 8 and 4.
C3_GrowthIsEndOverStart ==
    /\ \A c \in CallsMade :
          /\ (AllColumns /\ HasEndpoints(c) /\ c.start_year < c.end_year)
                => c.result.kind = "metrics"
          /\ c.result.kind = "metrics" =>
                \E i, j \in 1 .. Len(file.rows) :
                    /\ file.rows[i].Sector = c.sector
                    /\ file.rows[i].Year = c.start_year
                    /\ file.rows[j].Sector = c.sector
                    /\ file.rows[j].Year = c.end_year
                    /\ c.result.start_salary = file.rows[i].Salary
                    /\ c.result.end_salary = file.rows[j].Salary
                    /\ c.result.start_real_salary = file.rows[i].RealSalary
                    /\ c.result.end_real_salary = file.rows[j].RealSalary
                    /\ c.result.nominal_growth[1] * file.rows[i].Salary
                         = c.result.nominal_growth[2] * file.rows[j].Salary
                    /\ c.result.real_growth[1] * file.rows[i].RealSalary
                         = c.result.real_growth[2] * file.rows[j].RealSalary
    /\ ExampleMetrics.kind = "metrics"
    /\ ExampleMetrics.nominal_growth = <<8, 1>>
    /\ ExampleMetrics.real_growth = <<4, 1>>

C3_Witness ==
    \E c \in CallsMade :
        /\ c.result.kind = "metrics"
        /\ c.result.nominal_growth = <<2, 1>>
        /\ c.result.real_growth = <<3, 2>>
        /\ c.result.start_salary = 3

\* The run ended in the exception of a read of a column the file lacks: a
\* KeyError of the frame, or the ValueError of px.line (lines 147 and 166).
MissingColumnError ==
    /\ crash.kind = "raise"
    /\ \/ crash.exc = "KeyError"
       \/ crash.exc = "ValueError" /\ crash.line \in {147, 166}

\* C4: a file that lacks a required column is a load error shown as a
\* message: no run over such a file reaches an unhandled error caused by the
\* missing column.
C4_MissingColumnIsLoadError ==
    (started /\ LacksColumn) => ~MissingColumnError

\* C5: with the data file missing the load shows an error and yields no
\* dataset; the run builds no widget, filters and computes nothing, raises
\* nothing and ends with the project information.
C5_MissingFileDegrades ==
    (started /\ ~file.exists) =>
        /\ data = None
        /\ page = <<[kind |-> "title"], [kind |-> "error"], [kind |-> "project_info"]>>
        /\ widgets = {}
        /\ filtered_data = None
        /\ display_data = None
        /\ calls = <<>>
        /\ crash = None

C5_Witness == started /\ ~file.exists

\* C6: when no row of the file matches the filters, the run shows the warning,
\* calls calculate_metrics not once and renders no metric, chart, table or
\* summary; and calculate_metrics is called only when some row matches.
C6_EmptySelectionWarns ==
    /\ (Filtered /\ Matching = {}) =>
          /\ Shown("warning")
          /\ calls = <<>>
          /\ \A i \in 1 .. Len(page) :
                page[i].kind \notin MetricSites
                                     \cup {"chart", "dataframe", "summary", "leader",
                                           "selectbox", "checkbox"}
          /\ crash = None
    /\ calls # <<>> => (Filtered /\ Matching # {} /\ ~Shown("warning"))

C6_Witness ==
    /\ Filtered
    /\ Matching = {}
    /\ selected_sectors # <<>>
    /\ Shown("warning")

\* C7: a selected industry without a record at the start or the end year is
\* left out of every metric display and ends no run in an error, while every
\* other selected industry is displayed; every display of a run leaves out
\* the same industries.
C7_MissingEndpointSkipped ==
    (/\ AllColumns
     /\ Filtered
     /\ Matching # {}
     /\ \E s \in Range(selected_sectors) :
           ~(RecordAt(s, year_range[1]) /\ RecordAt(s, year_range[2])))
    => /\ crash = None
       /\ \A s \in Range(selected_sectors) :
             IF RecordAt(s, year_range[1]) /\ RecordAt(s, year_range[2])
             THEN /\ ShownFor("key", s)
                  /\ ShownFor("nominal_list", s)
                  /\ ShownFor("real_list", s)
                  /\ chart_type = "Growth" => ShownFor("growth", s)
             ELSE \A k \in MetricSites \cup {"leader"} : ~ShownFor(k, s)

\* C8: the filtered rows are exactly the rows of the file whose industry is
\* selected and whose year lies in [lo, hi], both ends included, in file
\* order and with every column value as in the file.
C8_FilterExact ==
    Filtered =>
        /\ filtered_data.columns = file.columns
        /\ Len(filtered_data.rows) = Cardinality(Matching)
        /\ \A i \in Matching :
              \E k \in 1 .. Len(filtered_data.rows) :
                  filtered_data.rows[k] = file.rows[i]
        /\ \A k \in 1 .. Len(filtered_data.rows) :
              \E i \in Matching : filtered_data.rows[k] = file.rows[i]
        /\ \A k, l \in 1 .. Len(filtered_data.rows) :
              k < l => \E i, j \in Matching :
                          /\ i < j
                          /\ filtered_data.rows[k] = file.rows[i]
                          /\ filtered_data.rows[l] = file.rows[j]

C8_Witness ==
    /\ Filtered
    /\ Len(filtered_data.rows) >= 1
    /\ \E i \in 1 .. Len(file.rows) :
          /\ file.rows[i].Sector \in Range(selected_sectors)
          /\ file.rows[i].Year > year_range[2]
    /\ \E i \in 1 .. Len(file.rows) :
          /\ file.rows[i].Sector \notin Range(selected_sectors)
          /\ file.rows[i].Year >= year_range[1]
          /\ file.rows[i].Year <= year_range[2]

SameCall(c1, c2) ==
    /\ c1.sector = c2.sector
    /\ c1.start_year = c2.start_year
    /\ c1.end_year = c2.end_year

\* C9: every run leaves the loaded dataset as it was loaded, whatever was
\* selected, charted or shown as the rounded table before; and two calls of
\* calculate_metrics with the same sector and years, in one run or in two
\* consecutive runs, give the same result.
C9_DatasetNeverMutated ==
    [][/\ file.exists => data' = Frame(file.columns, file.rows)
       /\ \A c1 \in {calls[i] : i \in 1 .. Len(calls)} \cup {calls'[i] : i \in 1 .. Len(calls')},
             c2 \in {calls'[i] : i \in 1 .. Len(calls')} :
             SameCall(c1, c2) => c1.result = c2.result]_vars

C9_Witness ==
    /\ display_data.kind = "frame"
    /\ display_data.rows # filtered_data.rows
    /\ \E c \in CallsMade : c.site = "real_list" /\ c.result.kind = "metrics"

\* C10: with more than one industry selected, the reported real-growth leader
\* is a selected industry with metrics whose real_growth is the largest among
\* the selected industries with metrics, the first such in selection order;
\* a leader is reported whenever some selected industry has metrics with
\* real_growth > 0; with one industry selected no leader is reported.
C10_LeaderIsMaxRealGrowth ==
    /\ Len(selected_sectors) <= 1 => ~Shown("leader")
    /\ (/\ Len(selected_sectors) > 1
        /\ \E c \in CallsMade : c.result.kind = "metrics" /\ c.result.real_growth[1] > 0)
         => Shown("leader")
    /\ \A e \in {page[i] : i \in 1 .. Len(page)} :
          e.kind = "leader" =>
              /\ Len(selected_sectors) > 1
              /\ \E k \in 1 .. Len(selected_sectors) :
                    /\ selected_sectors[k] = e.sector
                    /\ \E c \in CallsMade :
                          /\ c.sector = e.sector
                          /\ c.result.kind = "metrics"
                          /\ c.result.real_growth = e.real_growth
                    /\ \A c \in CallsMade :
                          c.result.kind = "metrics" =>
                              ~RatioGT(c.result.real_growth, e.real_growth)
                    /\ \A j \in 1 .. (k - 1) :
                          \A c \in CallsMade :
                              (c.sector = selected_sectors[j] /\ c.result.kind = "metrics")
                                  => c.result.real_growth # e.real_growth
====
